---- MODULE Spec2Model ----
(***************************************************************************)
(* The OAuth 2.1 provider of the Featurebase MCP server (OAuthProvider in  *)
(* src/src/index.ts, lines 277-582) and the two HTTP entry points that put *)
(* it in front of the /mcp endpoint (src/unnamed/part_000, lines 66-108,   *)
(* and src/src/index.ts, lines 138-231).                                   *)
(*                                                                         *)
(* Strings are kept as strings.  crypto.randomUUID() is a fresh-name       *)
(* source: the n-th identifier of a kind is the kind's prefix followed by  *)
(* n.  Date.now() is the variable now, in milliseconds.                    *)
(***************************************************************************)
EXTENDS Integers, Sequences, FiniteSets, TLC

VARIABLES
  variant,            \* which entry point this process runs
  alive,              \* FALSE once an unhandled rejection has ended the process
  now,                \* Date.now()
  ticks,              \* number of clock advances so far
  clients,            \* OAuthProvider.clients
  authCodes,          \* OAuthProvider.authCodes
  tokens,             \* OAuthProvider.tokens
  refreshTokenIndex,  \* OAuthProvider.refreshTokenIndex
  transport,          \* the one StreamableHTTPServerTransport main creates
  nCodes,             \* authorization codes minted so far
  nTokens,            \* token pairs minted so far
  req,                \* the request handled last
  res,                \* the response written for it
  inflight,           \* POST /token requests received, each with its answer
                      \* once its handler has resumed from reading the body
  redeemed,           \* history: the code records a token request has exchanged
  rotated             \* history: pairs a refresh has replaced, with their successors

vars == <<variant, alive, now, ticks, clients, authCodes, tokens,
          refreshTokenIndex, transport, nCodes, nTokens, req, res, inflight,
          redeemed, rotated>>

stores == <<clients, authCodes, tokens, refreshTokenIndex>>

----------------------------------------------------------------------------
(* Bounds of the exploration *)

MaxClients == 1
MaxCodes == 1
MaxTokens == 2
MaxTicks == 2
MaxInflight == 3

----------------------------------------------------------------------------
(* Constants of the program *)

CodeTtlMs == 600000
expiresIn == 3600
TokenTtlMs == expiresIn * 1000

Variants == {"gated", "stateless"}

----------------------------------------------------------------------------
(* Maps: Map.set, Map.delete, and a Map.get that finds nothing *)

EmptyMap == [k \in {} |-> k]

MapSet(m, k, v) == [x \in DOMAIN m \cup {k} |-> IF x = k THEN v ELSE m[x]]

MapDelete(m, k) == [x \in DOMAIN m \ {k} |-> m[x]]

Has(m, k) == k \in DOMAIN m

----------------------------------------------------------------------------
(* Fresh identifiers *)

NewClientId(n) == "client_" \o ToString(n)

NewCode(n) == "code_" \o ToString(n)

NewAccessToken(n) == "at_" \o ToString(n)

NewRefreshToken(n) == "rt_" \o ToString(n)

MintedCodes == {NewCode(n) : n \in 1..nCodes}

MintedAccessTokens == {NewAccessToken(n) : n \in 1..nTokens}

MintedRefreshTokens == {NewRefreshToken(n) : n \in 1..nTokens}

----------------------------------------------------------------------------
(* Request inputs *)

RegisteredUri == "https://client.example/cb"
OtherUri == "https://evil.example/cb"

Verifiers == {"", "verifier-one", "verifier-two"}

\* base64UrlEncode(crypto.createHash("sha256").update(v).digest()):
\* the digests of the verifiers above, base64url without padding.
Sha256Base64Url(v) ==
  CASE v = "" -> "47DEQpj8HBSa-_TImW-5JCeuQeRkm5NMpJWZG3hSuFU"
    [] v = "verifier-one" -> "oWznZcvhw3QgQqHwlFZIHuizYuQqAUxGDf_q-c8CmY4"
    [] v = "verifier-two" -> "-OZP4bJHaGpD8aBOjIhyUGreuIdXfZtWCXsxKSQUzuw"

\* code_challenge values a client may send: the digest of a verifier, or none
Challenges == {Sha256Base64Url("verifier-one"), ""}

ChallengeMethods == {""}

RedirectUriInputs == {RegisteredUri, OtherUri, ""}

StateInputs == {"", "xyz"}

ClientIdInputs == DOMAIN clients \cup {"nope"}

RefreshTokenInputs == MintedRefreshTokens \cup {""}

\* new URL(u) throws a TypeError on a string that is not an absolute URL
UrlParses(u) == u \in {RegisteredUri, OtherUri}

\* A param read with `params.get(name) || dflt`
OrDefault(v, dflt) == IF v = "" THEN dflt ELSE v

----------------------------------------------------------------------------
(* Responses *)

NoLocation == [uri |-> "", code |-> "", hasState |-> FALSE, state |-> ""]

NoMetadata ==
  [issuer |-> "", authorization_endpoint |-> "", token_endpoint |-> "",
   registration_endpoint |-> "", response_types_supported |-> <<>>,
   grant_types_supported |-> <<>>,
   token_endpoint_auth_methods_supported |-> <<>>,
   code_challenge_methods_supported |-> <<>>]

NoRes == [status |-> 0, error |-> "", error_description |-> "",
          location |-> NoLocation, access_token |-> "", refresh_token |-> "",
          token_type |-> "", expires_in |-> 0, client_id |-> "",
          client_secret |-> "", token_endpoint_auth_method |-> "",
          contentType |-> "", validated |-> "uncalled", transport |-> FALSE,
          sessionId |-> "", metadata |-> NoMetadata]

JsonError(status, error) ==
  [NoRes EXCEPT !.status = status, !.error = error,
                !.contentType = "application/json"]

HtmlError(status, error) ==
  [NoRes EXCEPT !.status = status, !.error = error, !.contentType = "text/html"]

InvalidGrant == JsonError(400, "invalid_grant")

TokenResponse(at, rt) ==
  [NoRes EXCEPT !.status = 200, !.access_token = at, !.refresh_token = rt,
                !.token_type = "Bearer", !.expires_in = expiresIn,
                !.contentType = "application/json"]

----------------------------------------------------------------------------
Undefined == "undefined"

InitOf(v) ==
  /\ variant = v
  /\ alive = TRUE
  /\ now = 0
  /\ ticks = 0
  /\ clients = EmptyMap
  /\ authCodes = EmptyMap
  /\ tokens = EmptyMap
  /\ refreshTokenIndex = EmptyMap
  /\ transport = [initialized |-> FALSE, sessionId |-> Undefined]
  /\ nCodes = 0
  /\ nTokens = 0
  /\ req = [op |-> "none"]
  /\ res = NoRes
  /\ inflight = <<>>
  /\ redeemed = {}
  /\ rotated = {}

\* src/unnamed/part_000: /mcp behind oauth.validateToken
Init == InitOf("gated")

\* src/src/index.ts, lines 138-231: the single stateless transport
InitStateless == InitOf("stateless")

\* The clock moves between requests.
Tick(d) ==
  /\ alive
  /\ ticks < MaxTicks
  /\ now' = now + d
  /\ ticks' = ticks + 1
  /\ UNCHANGED <<variant, alive, clients, authCodes, tokens, refreshTokenIndex,
                 nCodes, nTokens, req, res, inflight, redeemed,
                 rotated, transport>>

TickSteps == {CodeTtlMs, TokenTtlMs}

----------------------------------------------------------------------------
(* POST /register *)

RegisterBodies ==
  {[kind |-> k, token_endpoint_auth_method |-> Undefined,
    redirect_uris |-> <<>>] : k \in {"unparseable", "null"}}
  \cup
  {[kind |-> "object", token_endpoint_auth_method |-> Undefined,
    redirect_uris |-> <<RegisteredUri>>],
   [kind |-> "object", token_endpoint_auth_method |-> "client_secret_post",
    redirect_uris |-> <<>>]}

\* Variant: the record is stored without the identifier that keys it.
RegisteredClient_NoId(clientId, clientSecret, redirectUris) ==
  [clientId |-> Undefined, clientSecret |-> clientSecret,
   redirectUris |-> redirectUris]

\* const client: RegisteredClient = { clientId, clientSecret, redirectUris, ... }
RegisteredClient(clientId, clientSecret, redirectUris) ==
  [clientId |-> clientId, clientSecret |-> clientSecret,
   redirectUris |-> redirectUris]

\* Variant: the body is used without the guard of the try block.
JsonParses_Always(body) == TRUE

\* JSON.parse(body) returns, for the text of any JSON value, also null
JsonParses(body) == body.kind # "unparseable"

HandleRegister(body) ==
  /\ alive
  /\ body.kind = "object" => Cardinality(DOMAIN clients) < MaxClients
  /\ req' = [op |-> "register", body |-> body]
  /\ IF ~JsonParses(body)
       THEN \* JSON.parse throws, caught
            /\ res' = JsonError(400, "invalid_request")
            /\ UNCHANGED <<alive, clients>>
     ELSE IF body.kind = "null"
       THEN \* data is null: reading data.token_endpoint_auth_method throws
            \* outside the try, the handler's promise rejects unhandled
            /\ res' = NoRes
            /\ alive' = FALSE
            /\ UNCHANGED clients
     ELSE LET n == Cardinality(DOMAIN clients) + 1
              clientId == NewClientId(n)
              clientSecret ==
                IF body.token_endpoint_auth_method = "client_secret_post"
                  THEN "secret_" \o ToString(n) ELSE Undefined
              client == RegisteredClient(clientId, clientSecret,
                                         body.redirect_uris)
          IN /\ clients' = MapSet(clients, clientId, client)
             /\ res' = [NoRes EXCEPT
                   !.status = 201, !.contentType = "application/json",
                   !.client_id = clientId,
                   !.client_secret =
                     IF clientSecret # Undefined THEN clientSecret ELSE "",
                   !.token_endpoint_auth_method =
                     IF clientSecret # Undefined
                       THEN "client_secret_post" ELSE "none"]
             /\ UNCHANGED alive
  /\ UNCHANGED <<variant, now, ticks, authCodes, tokens, refreshTokenIndex,
                 nCodes, nTokens, inflight, redeemed,
                 rotated, transport>>

----------------------------------------------------------------------------
(* GET /authorize *)

\* Variant: every client_id is taken for a registered one.
UnknownClient_Never(clientId) == FALSE

\* const client = this.clients.get(clientId); if (!client)
UnknownClient(clientId) == ~Has(clients, clientId)

\* Variant: the consent page already stores a code, as the approval does.
handleAuthorize_StoresCode(params) ==
  [res |-> [NoRes EXCEPT !.status = 200, !.contentType = "text/html"],
   clients |-> clients,
   authCodes |-> MapSet(authCodes, NewCode(nCodes + 1),
     [code |-> NewCode(nCodes + 1), clientId |-> params.client_id,
      redirectUri |-> params.redirect_uri,
      codeChallenge |-> params.code_challenge,
      codeChallengeMethod |-> OrDefault(params.code_challenge_method, "S256"),
      expiresAt |-> now + CodeTtlMs]),
   tokens |-> tokens, refreshTokenIndex |-> refreshTokenIndex]

\* The response written and the stores left behind: the handler reads the
\* client registry and writes to no store.
handleAuthorize(params) ==
  [res |-> IF UnknownClient(params.client_id)
             THEN HtmlError(400, "Unknown client")
             ELSE [NoRes EXCEPT !.status = 200, !.contentType = "text/html"],
   clients |-> clients, authCodes |-> authCodes,
   tokens |-> tokens, refreshTokenIndex |-> refreshTokenIndex]

HandleAuthorize(params) ==
  LET out == handleAuthorize(params) IN
  /\ alive
  /\ req' = [op |-> "authorize_get", params |-> params]
  /\ res' = out.res
  /\ clients' = out.clients
  /\ authCodes' = out.authCodes
  /\ tokens' = out.tokens
  /\ refreshTokenIndex' = out.refreshTokenIndex
  /\ UNCHANGED <<variant, alive, now, ticks, nCodes, nTokens, inflight, redeemed,
                 rotated, transport>>

----------------------------------------------------------------------------
(* GET /.well-known/oauth-authorization-server *)

SERVER_URL == "http://localhost:3000"

\* serverUrl.replace(/\/$/, ""): one trailing slash is dropped.
StripTrailingSlash(url) ==
  CASE url = "http://localhost:3000/" -> "http://localhost:3000"
    [] url = "https://mcp.example.com/" -> "https://mcp.example.com"
    [] OTHER -> url

serverUrl == StripTrailingSlash(SERVER_URL)

\* Variant: the handler sweeps the expired authorization codes on its way.
handleMetadata_Sweeps ==
  [res |-> [NoRes EXCEPT !.status = 200, !.contentType = "application/json",
              !.metadata =
                [issuer |-> serverUrl,
                 authorization_endpoint |-> serverUrl \o "/authorize",
                 token_endpoint |-> serverUrl \o "/token",
                 registration_endpoint |-> serverUrl \o "/register",
                 response_types_supported |-> <<"code">>,
                 grant_types_supported |->
                   <<"authorization_code", "refresh_token">>,
                 token_endpoint_auth_methods_supported |->
                   <<"none", "client_secret_post">>,
                 code_challenge_methods_supported |-> <<"S256">>]],
   clients |-> clients,
   authCodes |-> [c \in {k \in DOMAIN authCodes : now <= authCodes[k].expiresAt}
                    |-> authCodes[c]],
   tokens |-> tokens, refreshTokenIndex |-> refreshTokenIndex]

\* The document is built from serverUrl and literals; no store is read or
\* written.
handleMetadata ==
  [res |-> [NoRes EXCEPT !.status = 200, !.contentType = "application/json",
              !.metadata =
                [issuer |-> serverUrl,
                 authorization_endpoint |-> serverUrl \o "/authorize",
                 token_endpoint |-> serverUrl \o "/token",
                 registration_endpoint |-> serverUrl \o "/register",
                 response_types_supported |-> <<"code">>,
                 grant_types_supported |->
                   <<"authorization_code", "refresh_token">>,
                 token_endpoint_auth_methods_supported |->
                   <<"none", "client_secret_post">>,
                 code_challenge_methods_supported |-> <<"S256">>]],
   clients |-> clients, authCodes |-> authCodes,
   tokens |-> tokens, refreshTokenIndex |-> refreshTokenIndex]

HandleMetadata ==
  LET out == handleMetadata IN
  /\ alive
  /\ req' = [op |-> "metadata"]
  /\ res' = out.res
  /\ clients' = out.clients
  /\ authCodes' = out.authCodes
  /\ tokens' = out.tokens
  /\ refreshTokenIndex' = out.refreshTokenIndex
  /\ UNCHANGED <<variant, alive, now, ticks, nCodes, nTokens, inflight, redeemed,
                 rotated, transport>>

----------------------------------------------------------------------------
(* POST /authorize *)

\* The form a client posts, and the forms that differ from it in one field.
\* An unknown client_id is answered before any other parameter is used, so
\* one request stands for all of those.
AuthorizeParams ==
  [client_id : DOMAIN clients, redirect_uri : RedirectUriInputs,
   state : {"xyz"}, code_challenge : {Sha256Base64Url("verifier-one")},
   code_challenge_method : {""}]
  \cup
  [client_id : DOMAIN clients, redirect_uri : {RegisteredUri},
   state : StateInputs, code_challenge : {Sha256Base64Url("verifier-one")},
   code_challenge_method : {""}]
  \cup
  [client_id : DOMAIN clients, redirect_uri : {RegisteredUri},
   state : {"xyz"}, code_challenge : Challenges,
   code_challenge_method : ChallengeMethods]
  \cup
  [client_id : {"nope"}, redirect_uri : {RegisteredUri}, state : {"xyz"},
   code_challenge : {Sha256Base64Url("verifier-one")},
   code_challenge_method : {""}]

\* The approval forms of one client with every challenge and every method a
\* client may send: the digest of a verifier, no challenge, or a verifier as
\* it is, each with no method, S256 or plain.
PkceAuthorizeParams ==
  [client_id : DOMAIN clients, redirect_uri : {RegisteredUri},
   state : {"xyz"},
   code_challenge : {Sha256Base64Url("verifier-one"), "", "verifier-two"},
   code_challenge_method : {"", "S256", "plain"}]

HandleAuthorizePost(params) ==
  LET clientId == params.client_id
      redirectUri == params.redirect_uri
      state == params.state
      codeChallenge == params.code_challenge
      codeChallengeMethod == OrDefault(params.code_challenge_method, "S256")
      code == NewCode(nCodes + 1)
  IN
  /\ alive
  /\ ~UnknownClient(clientId) => nCodes < MaxCodes
  /\ req' = [op |-> "authorize_post", params |-> params]
  /\ IF UnknownClient(clientId)
       THEN /\ res' = HtmlError(400, "Unknown client")
            /\ UNCHANGED <<alive, authCodes, nCodes>>
       ELSE /\ nCodes' = nCodes + 1
            /\ authCodes' = MapSet(authCodes, code,
                 [code |-> code, clientId |-> clientId,
                  redirectUri |-> redirectUri, codeChallenge |-> codeChallenge,
                  codeChallengeMethod |-> codeChallengeMethod,
                  expiresAt |-> now + CodeTtlMs])
            /\ IF UrlParses(redirectUri)
                 THEN /\ res' = [NoRes EXCEPT !.status = 302,
                           !.location = [uri |-> redirectUri, code |-> code,
                                         hasState |-> state # "",
                                         state |-> state]]
                      /\ UNCHANGED alive
                 ELSE \* new URL(redirectUri) throws after the code is stored
                      /\ res' = NoRes
                      /\ alive' = FALSE
  /\ UNCHANGED <<variant, now, ticks, clients, tokens, refreshTokenIndex,
                 nTokens, inflight, redeemed,
                 rotated, transport>>

----------------------------------------------------------------------------
(* OAuthProvider.validateToken *)

NoHeader == [present |-> FALSE, prefix |-> "", rest |-> ""]

\* An Authorization header is its first seven characters and the remainder.
AuthHeaders ==
  {NoHeader} \cup
  {[present |-> TRUE, prefix |-> p, rest |-> t] :
     p \in {"Bearer ", "Basic  "}, t \in MintedAccessTokens \cup {"nope"}}

\* auth?.startsWith("Bearer ")
StartsWithBearer(auth) == auth.present /\ auth.prefix = "Bearer "

\* Variant: a record is refused from the very instant of its deadline.
Expired_AtDeadline(record) == now >= record.expiresAt

\* Date.now() > record.expiresAt
Expired(record) == now > record.expiresAt

\* Variant: an expired record is refused and left in the store.
validateToken_NoEvict(auth) ==
  IF ~StartsWithBearer(auth) THEN [ok |-> FALSE, tokens |-> tokens]
  ELSE LET token == auth.rest IN
    IF ~Has(tokens, token) THEN [ok |-> FALSE, tokens |-> tokens]
    ELSE IF Expired(tokens[token])
      THEN [ok |-> FALSE, tokens |-> tokens]
    ELSE [ok |-> TRUE, tokens |-> tokens]

\* The value returned and the token store left behind.
validateToken(auth) ==
  IF ~StartsWithBearer(auth) THEN [ok |-> FALSE, tokens |-> tokens]
  ELSE LET token == auth.rest IN
    IF ~Has(tokens, token) THEN [ok |-> FALSE, tokens |-> tokens]
    ELSE IF Expired(tokens[token])
      THEN [ok |-> FALSE, tokens |-> MapDelete(tokens, token)]
    ELSE [ok |-> TRUE, tokens |-> tokens]

----------------------------------------------------------------------------
(* POST /token *)

\* For every minted code and every client_id, the request with the verifier
\* and redirect_uri of the form above and the requests that differ from it in
\* one of the two.  A request with a code that was never minted is answered
\* before any other parameter is used, so one request stands for all of those.
TokenParams ==
  [grant_type : {"authorization_code"}, code : MintedCodes,
   code_verifier : Verifiers, client_id : ClientIdInputs,
   redirect_uri : {RegisteredUri}, refresh_token : {""}]
  \cup
  [grant_type : {"authorization_code"}, code : MintedCodes,
   code_verifier : {"verifier-one"}, client_id : ClientIdInputs,
   redirect_uri : RedirectUriInputs, refresh_token : {""}]
  \cup
  [grant_type : {"authorization_code"}, code : {""},
   code_verifier : {""}, client_id : {"nope"},
   redirect_uri : {""}, refresh_token : {""}]
  \cup
  [grant_type : {"refresh_token"}, code : {""}, code_verifier : {""},
   client_id : {"nope"}, redirect_uri : {""},
   refresh_token : RefreshTokenInputs]
  \cup
  [grant_type : {"password", ""}, code : {""}, code_verifier : {""},
   client_id : {""}, redirect_uri : {""}, refresh_token : {""}]

\* Variant: the verifier is compared as sent, without hashing it.
PkceFails_Plain(codeVerifier, authCode) ==
  codeVerifier # authCode.codeChallenge

\* Variant: a code stored with the method plain is checked by comparing the
\* verifier itself with the challenge.
PkceFails_ByMethod(codeVerifier, authCode) ==
  IF authCode.codeChallengeMethod = "plain"
    THEN codeVerifier # authCode.codeChallenge
    ELSE Sha256Base64Url(codeVerifier) # authCode.codeChallenge

\* expectedChallenge !== authCode.codeChallenge
PkceFails(codeVerifier, authCode) ==
  Sha256Base64Url(codeVerifier) # authCode.codeChallenge

\* Variant: the deadline of the code is not looked at.
CodeRejected_NoExpiry(code, clientId) ==
  \/ ~Has(authCodes, code)
  \/ authCodes[code].clientId # clientId

\* !authCode || authCode.clientId !== clientId || Date.now() > authCode.expiresAt
CodeRejected(code, clientId) ==
  \/ ~Has(authCodes, code)
  \/ authCodes[code].clientId # clientId
  \/ Expired(authCodes[code])

\* Variant: an exchanged code stays in the store.
ConsumeCode_Keep(code) == authCodes

\* this.authCodes.delete(code)
ConsumeCode(code) == MapDelete(authCodes, code)

Unchanged(r) ==
  [res |-> r, authCodes |-> authCodes, tokens |-> tokens,
   refreshTokenIndex |-> refreshTokenIndex, minted |-> FALSE,
   redeemed |-> redeemed, rotated |-> rotated]

\* Variant: a failed PKCE check burns the code it was made against.
handleTokenAuthCode_BurnOnMismatch(params) ==
  LET code == params.code
      codeVerifier == params.code_verifier
      clientId == params.client_id
      accessToken == NewAccessToken(nTokens + 1)
      refreshToken == NewRefreshToken(nTokens + 1)
  IN
  IF CodeRejected(code, clientId) THEN Unchanged(InvalidGrant)
  ELSE IF PkceFails(codeVerifier, authCodes[code])
    THEN [Unchanged([InvalidGrant EXCEPT
                       !.error_description = "PKCE verification failed"])
            EXCEPT !.authCodes = ConsumeCode(code)]
  ELSE [res |-> TokenResponse(accessToken, refreshToken),
        authCodes |-> ConsumeCode(code),
        tokens |-> MapSet(tokens, accessToken,
          [accessToken |-> accessToken, refreshToken |-> refreshToken,
           clientId |-> clientId, expiresAt |-> now + expiresIn * 1000]),
        refreshTokenIndex |-> MapSet(refreshTokenIndex, refreshToken, accessToken),
        minted |-> TRUE,
        redeemed |-> redeemed \cup {authCodes[code]},
        rotated |-> rotated]

handleTokenAuthCode(params) ==
  LET code == params.code
      codeVerifier == params.code_verifier
      clientId == params.client_id
      accessToken == NewAccessToken(nTokens + 1)
      refreshToken == NewRefreshToken(nTokens + 1)
  IN
  IF CodeRejected(code, clientId) THEN Unchanged(InvalidGrant)
  ELSE IF PkceFails(codeVerifier, authCodes[code])
    THEN Unchanged([InvalidGrant EXCEPT
                      !.error_description = "PKCE verification failed"])
  ELSE [res |-> TokenResponse(accessToken, refreshToken),
        authCodes |-> ConsumeCode(code),
        tokens |-> MapSet(tokens, accessToken,
          [accessToken |-> accessToken, refreshToken |-> refreshToken,
           clientId |-> clientId, expiresAt |-> now + expiresIn * 1000]),
        refreshTokenIndex |-> MapSet(refreshTokenIndex, refreshToken, accessToken),
        minted |-> TRUE,
        redeemed |-> redeemed \cup {authCodes[code]},
        rotated |-> rotated]

\* Variant: the index entry of a vanished record is left in place.
ForgetRefreshToken_Keep(refreshToken) == refreshTokenIndex

\* this.refreshTokenIndex.delete(refreshToken) when the record has vanished.
ForgetRefreshToken(refreshToken) == MapDelete(refreshTokenIndex, refreshToken)

\* Variant: the new record is owned by the client_id the request carries.
RefreshedOwner_Caller(oldRecord, params) == params.client_id

\* clientId: oldRecord.clientId
RefreshedOwner(oldRecord, params) == oldRecord.clientId

\* Variant: the new record is added and the old one is left in the store.
RotatedTokens_KeepOld(oldAccessToken, newAccessToken, record) ==
  MapSet(tokens, newAccessToken, record)

\* this.tokens.delete(oldAccessToken); ... this.tokens.set(newAccessToken, ...)
\* with no await between the two
RotatedTokens(oldAccessToken, newAccessToken, record) ==
  MapSet(MapDelete(tokens, oldAccessToken), newAccessToken, record)

\* Variant: the caller's client_id must be the owner of the record it rotates.
handleTokenRefresh_ChecksClient(params) ==
  LET refreshToken == params.refresh_token
      newAccessToken == NewAccessToken(nTokens + 1)
      newRefreshToken == NewRefreshToken(nTokens + 1)
  IN
  IF ~Has(refreshTokenIndex, refreshToken) THEN Unchanged(InvalidGrant)
  ELSE LET oldAccessToken == refreshTokenIndex[refreshToken] IN
    IF ~Has(tokens, oldAccessToken)
      THEN [Unchanged(InvalidGrant) EXCEPT
              !.refreshTokenIndex = ForgetRefreshToken(refreshToken)]
    ELSE IF tokens[oldAccessToken].clientId # params.client_id
      THEN Unchanged(InvalidGrant)
    ELSE LET oldRecord == tokens[oldAccessToken] IN
      [res |-> TokenResponse(newAccessToken, newRefreshToken),
       authCodes |-> authCodes,
       tokens |-> RotatedTokens(oldAccessToken, newAccessToken,
         [accessToken |-> newAccessToken, refreshToken |-> newRefreshToken,
          clientId |-> RefreshedOwner(oldRecord, params),
          expiresAt |-> now + expiresIn * 1000]),
       refreshTokenIndex |->
         MapSet(MapDelete(refreshTokenIndex, refreshToken),
                newRefreshToken, newAccessToken),
       minted |-> TRUE,
       redeemed |-> redeemed,
       rotated |-> rotated \cup
         {[oldAccess |-> oldAccessToken, oldRefresh |-> refreshToken,
           newAccess |-> newAccessToken, newRefresh |-> newRefreshToken,
           newExpiresAt |-> now + expiresIn * 1000]}]

handleTokenRefresh(params) ==
  LET refreshToken == params.refresh_token
      newAccessToken == NewAccessToken(nTokens + 1)
      newRefreshToken == NewRefreshToken(nTokens + 1)
  IN
  IF ~Has(refreshTokenIndex, refreshToken) THEN Unchanged(InvalidGrant)
  ELSE LET oldAccessToken == refreshTokenIndex[refreshToken] IN
    IF ~Has(tokens, oldAccessToken)
      THEN [Unchanged(InvalidGrant) EXCEPT
              !.refreshTokenIndex = ForgetRefreshToken(refreshToken)]
    ELSE LET oldRecord == tokens[oldAccessToken] IN
      [res |-> TokenResponse(newAccessToken, newRefreshToken),
       authCodes |-> authCodes,
       tokens |-> RotatedTokens(oldAccessToken, newAccessToken,
         [accessToken |-> newAccessToken, refreshToken |-> newRefreshToken,
          clientId |-> RefreshedOwner(oldRecord, params),
          expiresAt |-> now + expiresIn * 1000]),
       refreshTokenIndex |->
         MapSet(MapDelete(refreshTokenIndex, refreshToken),
                newRefreshToken, newAccessToken),
       minted |-> TRUE,
       redeemed |-> redeemed,
       rotated |-> rotated \cup
         {[oldAccess |-> oldAccessToken, oldRefresh |-> refreshToken,
           newAccess |-> newAccessToken, newRefresh |-> newRefreshToken,
           newExpiresAt |-> now + expiresIn * 1000]}]

\* Variant: a grant type that is not authorization_code is taken for a refresh.
handleToken_DefaultRefresh(params) ==
  IF params.grant_type = "authorization_code" THEN handleTokenAuthCode(params)
  ELSE handleTokenRefresh(params)

handleToken(params) ==
  IF params.grant_type = "authorization_code" THEN handleTokenAuthCode(params)
  ELSE IF params.grant_type = "refresh_token" THEN handleTokenRefresh(params)
  ELSE Unchanged(JsonError(400, "unsupported_grant_type"))

HandleToken(params) ==
  LET out == handleToken(params) IN
  /\ alive
  /\ out.minted => nTokens < MaxTokens
  /\ req' = [op |-> "token", params |-> params]
  /\ res' = out.res
  /\ authCodes' = out.authCodes
  /\ tokens' = out.tokens
  /\ refreshTokenIndex' = out.refreshTokenIndex
  /\ nTokens' = IF out.minted THEN nTokens + 1 ELSE nTokens
  /\ redeemed' = out.redeemed
  /\ rotated' = out.rotated
  /\ UNCHANGED <<variant, alive, now, ticks, clients, nCodes, inflight,
                 transport>>

----------------------------------------------------------------------------
(* POST /token, with the suspension of the handler at `await readBody(req)` *)

\* The requests several clients send at once: the exchange of a minted code
\* by a registered client with the verifier of the form, and the refresh of
\* a minted refresh token.
ConcurrentTokenParams ==
  [grant_type : {"authorization_code"}, code : MintedCodes,
   code_verifier : {"verifier-one"}, client_id : DOMAIN clients,
   redirect_uri : {RegisteredUri}, refresh_token : {""}]
  \cup
  [grant_type : {"refresh_token"}, code : {""}, code_verifier : {""},
   client_id : {"nope"}, redirect_uri : {""},
   refresh_token : MintedRefreshTokens]

\* The request arrives and its handler suspends until the body is read; it
\* has looked at no store yet.  mintedBefore is the number of token pairs
\* minted when it arrived.
ReceiveToken(params) ==
  /\ alive
  /\ Len(inflight) < MaxInflight
  /\ inflight' = Append(inflight,
       [params |-> params, mintedBefore |-> nTokens, res |-> NoRes])
  /\ UNCHANGED <<variant, alive, now, ticks, clients, authCodes, tokens,
                 refreshTokenIndex, nCodes, nTokens, req, res, redeemed,
                 rotated, transport>>

\* The body is read and the handler runs to its response in one turn of the
\* event loop: nothing in handleToken awaits after readBody.
ResumeToken(i) ==
  LET params == inflight[i].params
      out == handleToken(params)
  IN
  /\ alive
  /\ inflight[i].res = NoRes
  /\ out.minted => nTokens < MaxTokens
  /\ req' = [op |-> "token", params |-> params]
  /\ res' = out.res
  /\ inflight' = [inflight EXCEPT ![i].res = out.res]
  /\ authCodes' = out.authCodes
  /\ tokens' = out.tokens
  /\ refreshTokenIndex' = out.refreshTokenIndex
  /\ nTokens' = IF out.minted THEN nTokens + 1 ELSE nTokens
  /\ redeemed' = out.redeemed
  /\ rotated' = out.rotated
  /\ UNCHANGED <<variant, alive, now, ticks, clients, nCodes, transport>>

----------------------------------------------------------------------------
(* Any request on /mcp, after oauth.handleRequest has declined it *)

\* What the MCP server answers to a request the transport accepts.
TransportStatuses == {200}

NoSessionId == ""

NewSessionId(n) == "session_" \o ToString(n)

\* The option main gives the transport: () => crypto.randomUUID() in the
\* gated entry point, undefined in the stateless one.
sessionIdGenerator ==
  IF variant = "gated" THEN NewSessionId(1) ELSE Undefined

\* The Mcp-Session-Id headers a caller may send: none, the identifier the
\* transport has issued, and one that was never issued.
SessionIdInputs ==
  {NoSessionId, "session_never_issued"}
  \cup (IF transport.sessionId # Undefined THEN {transport.sessionId} ELSE {})

\* A session-initiating request without identifier, and any other request.
McpMessages ==
  [initialize : {TRUE}, sessionId : {NoSessionId}]
  \cup [initialize : {FALSE}, sessionId : SessionIdInputs]

TransportAnswer(status, error, sessionId, t) ==
  [status |-> status, error |-> error, sessionId |-> sessionId, transport |-> t]

\* transport.handleRequest(req, res) of the one transport of the process.
\* Without a sessionIdGenerator the transport issues and checks no session
\* identifier; with one it is initialised once and serves that one session.
transportHandleRequest(msg, st) ==
  IF sessionIdGenerator = Undefined
    THEN TransportAnswer(st, "", "",
           IF msg.initialize
             THEN [initialized |-> TRUE, sessionId |-> Undefined]
             ELSE transport)
  ELSE IF msg.initialize
    THEN IF transport.initialized
           THEN TransportAnswer(400, "Invalid Request: Server already initialized",
                                "", transport)
           ELSE TransportAnswer(st, "", sessionIdGenerator,
                  [initialized |-> TRUE, sessionId |-> sessionIdGenerator])
  ELSE IF ~transport.initialized
    THEN TransportAnswer(400, "Bad Request: Server not initialized", "", transport)
  ELSE IF msg.sessionId = NoSessionId
    THEN TransportAnswer(400, "Bad Request: Mcp-Session-Id header is required",
                         "", transport)
  ELSE IF msg.sessionId # transport.sessionId
    THEN TransportAnswer(404, "Session not found", "", transport)
  ELSE TransportAnswer(st, "", transport.sessionId, transport)

Delivered(t) ==
  [NoRes EXCEPT !.status = t.status, !.error = t.error,
                !.sessionId = t.sessionId, !.transport = TRUE]

\* The entry point that checks the bearer token.
GatedMcp(auth, msg, st) ==
  LET v == validateToken(auth)
      t == transportHandleRequest(msg, st)
  IN
  /\ tokens' = v.tokens
  /\ IF ~v.ok
       THEN /\ res' = [JsonError(401, "Unauthorized") EXCEPT
                         !.validated = "false"]
            /\ UNCHANGED transport
       ELSE /\ res' = [Delivered(t) EXCEPT !.validated = "true"]
            /\ transport' = t.transport

\* The single stateless transport: oauth.validateToken is never called.
StatelessMcp(auth, msg, st) ==
  LET t == transportHandleRequest(msg, st) IN
  /\ tokens' = tokens
  /\ res' = Delivered(t)
  /\ transport' = t.transport

HandleMcp(auth, st) ==
  \E msg \in McpMessages :
    /\ alive
    /\ req' = [op |-> "mcp", authorization |-> auth, msg |-> msg]
    /\ IF variant = "gated"
         THEN GatedMcp(auth, msg, st) ELSE StatelessMcp(auth, msg, st)
    /\ UNCHANGED <<variant, alive, now, ticks, clients, authCodes,
                   refreshTokenIndex, nCodes, nTokens, inflight, redeemed,
                   rotated>>

----------------------------------------------------------------------------
Next ==
  \/ \E d \in TickSteps : Tick(d)
  \/ HandleMetadata
  \/ \E body \in RegisterBodies : HandleRegister(body)
  \/ \E params \in AuthorizeParams : HandleAuthorize(params)
  \/ \E params \in AuthorizeParams : HandleAuthorizePost(params)
  \/ \E params \in TokenParams : HandleToken(params)
  \/ \E auth \in AuthHeaders, st \in TransportStatuses : HandleMcp(auth, st)

Spec == Init /\ [][Next]_vars

SpecStateless == InitStateless /\ [][Next]_vars

\* The gated entry point with token requests that overlap in time.
NextConcurrent ==
  \/ \E d \in TickSteps : Tick(d)
  \/ \E body \in RegisterBodies : HandleRegister(body)
  \/ \E params \in AuthorizeParams : HandleAuthorizePost(params)
  \/ \E params \in ConcurrentTokenParams : ReceiveToken(params)
  \/ \E i \in DOMAIN inflight : ResumeToken(i)
  \/ \E auth \in AuthHeaders, st \in TransportStatuses : HandleMcp(auth, st)

SpecConcurrent == Init /\ [][NextConcurrent]_vars

\* The gated entry point with approvals of every challenge method.
NextPkce ==
  \/ \E d \in TickSteps : Tick(d)
  \/ \E body \in RegisterBodies : HandleRegister(body)
  \/ \E params \in PkceAuthorizeParams : HandleAuthorizePost(params)
  \/ \E params \in TokenParams : HandleToken(params)

SpecPkce == Init /\ [][NextPkce]_vars

----------------------------------------------------------------------------
(* Properties *)

RedeemedCodes == {r.code : r \in redeemed}

IsAuthCodeGrant(p) == p.grant_type = "authorization_code"

IsInvalidGrant(r) == r.status = 400 /\ r.error = "invalid_grant"

IsTokenPair(r) ==
  /\ r.status = 200
  /\ r.access_token # "" /\ r.refresh_token # ""
  /\ r.token_type = "Bearer"

\* The request presents a stored code with its owner's client_id before the
\* code's deadline has passed.
PresentsLiveCode(p) ==
  /\ IsAuthCodeGrant(p)
  /\ p.code \in DOMAIN authCodes
  /\ authCodes[p.code].clientId = p.client_id
  /\ now <= authCodes[p.code].expiresAt

\* C1: single-use code.  A token request that presents a stored, unexpired
\* code with the owning client_id and the matching PKCE verifier is answered
\* 200 with a token pair, and every token request that presents a code already
\* exchanged is answered invalid_grant, whatever its other parameters.
C1_SingleUseCode ==
  [][\A p \in TokenParams : HandleToken(p) /\ IsAuthCodeGrant(p) =>
       /\ (PresentsLiveCode(p)
            /\ Sha256Base64Url(p.code_verifier) = authCodes[p.code].codeChallenge)
          => (IsTokenPair(res') /\ p.code \notin RedeemedCodes)
       /\ p.code \in RedeemedCodes => IsInvalidGrant(res')]_vars

\* A code that was exchanged is presented again by its owner with the right
\* verifier, and is refused.
C1_Witness ==
  /\ req.op = "token"
  /\ IsAuthCodeGrant(req.params)
  /\ \E r \in redeemed :
       /\ r.code = req.params.code
       /\ r.clientId = req.params.client_id
       /\ r.codeChallenge = Sha256Base64Url(req.params.code_verifier)
  /\ IsInvalidGrant(res)

\* C2: PKCE binding.  For an unexpired code presented by its owner, tokens are
\* issued if and only if the base64url SHA-256 digest of code_verifier equals
\* the stored challenge; otherwise the answer is 400 invalid_grant and no
\* token record is created.
C2_PkceBinding ==
  [][\A p \in TokenParams : HandleToken(p) /\ PresentsLiveCode(p) =>
       IF Sha256Base64Url(p.code_verifier) = authCodes[p.code].codeChallenge
         THEN /\ IsTokenPair(res')
              /\ res'.access_token \in DOMAIN tokens' \ DOMAIN tokens
         ELSE /\ IsInvalidGrant(res')
              /\ tokens' = tokens
              /\ refreshTokenIndex' = refreshTokenIndex]_vars

\* The owner presented a live code with a verifier of another digest.
C2_Witness ==
  /\ req.op = "token"
  /\ PresentsLiveCode(req.params)
  /\ Sha256Base64Url(req.params.code_verifier)
       # authCodes[req.params.code].codeChallenge
  /\ authCodes[req.params.code].codeChallenge # ""
  /\ IsInvalidGrant(res)
  /\ res.error_description = "PKCE verification failed"

\* C3: code expiry.  An approved code is stored with expiresAt ten minutes
\* after the time of approval, and a token request made when the clock is
\* strictly past a stored code's expiresAt is answered invalid_grant and mints
\* no tokens, also with the owner's client_id and the matching verifier.
C3_CodeExpiry ==
  [][/\ \A p \in AuthorizeParams :
          HandleAuthorizePost(p) /\ p.client_id \in DOMAIN clients =>
            \E c \in DOMAIN authCodes' \ DOMAIN authCodes :
              authCodes'[c].expiresAt = now + 10 * 60 * 1000
     /\ \A p \in TokenParams :
          (/\ HandleToken(p)
           /\ IsAuthCodeGrant(p)
           /\ p.code \in DOMAIN authCodes
           /\ now > authCodes[p.code].expiresAt)
          => /\ IsInvalidGrant(res')
             /\ tokens' = tokens
             /\ refreshTokenIndex' = refreshTokenIndex]_vars

\* The owner presented an expired code with the matching verifier.
C3_Witness ==
  /\ req.op = "token"
  /\ IsAuthCodeGrant(req.params)
  /\ req.params.code \in DOMAIN authCodes
  /\ authCodes[req.params.code].clientId = req.params.client_id
  /\ authCodes[req.params.code].codeChallenge
       = Sha256Base64Url(req.params.code_verifier)
  /\ now > authCodes[req.params.code].expiresAt
  /\ IsInvalidGrant(res)

BearerOf(token) == [present |-> TRUE, prefix |-> "Bearer ", rest |-> token]

RefreshRequest(rt) ==
  [grant_type |-> "refresh_token", code |-> "", code_verifier |-> "",
   client_id |-> "nope", redirect_uri |-> "", refresh_token |-> rt]

\* C4: rotation.  After a refresh replaced the pair (A, R) by (A', R'):
\* validateToken rejects A and a refresh with R fails, in every later state;
\* A' validates until its own expiry; and R' is redeemed by exactly one later
\* refresh: until one has redeemed it, a refresh presenting R' succeeds.
C4_Rotation ==
  \A r \in rotated :
    /\ ~validateToken(BearerOf(r.oldAccess)).ok
    /\ IsInvalidGrant(handleTokenRefresh(RefreshRequest(r.oldRefresh)).res)
    /\ (\A q \in rotated : q.oldRefresh # r.newRefresh) =>
         /\ now <= r.newExpiresAt => validateToken(BearerOf(r.newAccess)).ok
         /\ IsTokenPair(handleTokenRefresh(RefreshRequest(r.newRefresh)).res)

\* C5: bearer gate.  A request on /mcp is handed to the MCP transport only if
\* validateToken returned true for it; otherwise it is answered 401 with a
\* JSON error body and the transport is not invoked.
C5_BearerGate ==
  req.op = "mcp" =>
    IF res.validated = "true"
      THEN res.transport
      ELSE /\ ~res.transport
           /\ res.status = 401
           /\ res.contentType = "application/json"
           /\ res.error # ""

\* C6: validateToken returns true if and only if the Authorization header
\* starts with "Bearer ", the remainder keys a record of the token store and
\* the clock is not past the record's expiresAt; a record's expiresAt is the
\* time it was issued plus 3600 seconds.
C6_ValidateToken ==
  [][/\ \A a \in AuthHeaders : \A st \in TransportStatuses :
          HandleMcp(a, st) /\ variant = "gated" =>
            ((res'.validated = "true") <=>
               /\ a.present /\ a.prefix = "Bearer "
               /\ a.rest \in DOMAIN tokens
               /\ now <= tokens[a.rest].expiresAt)
     /\ \A p \in TokenParams : HandleToken(p) =>
          \A t \in DOMAIN tokens' \ DOMAIN tokens :
            tokens'[t].expiresAt = now + 3600 * 1000]_vars

\* A bearer token presented at the very instant of its expiresAt is accepted.
C6_Witness ==
  /\ req.op = "mcp"
  /\ req.authorization.rest \in DOMAIN tokens
  /\ now = tokens[req.authorization.rest].expiresAt
  /\ res.validated = "true"
  /\ res.transport

\* C7: refresh-index invariant.  Every entry of refreshTokenIndex maps to an
\* access token that is a key of the token store.
C7_RefreshIndex ==
  \A rt \in DOMAIN refreshTokenIndex : refreshTokenIndex[rt] \in DOMAIN tokens

Range(f) == {f[i] : i \in DOMAIN f}

\* C8: approval redirect.  For a known client_id, POST /authorize answers 302
\* with a Location that is a redirect URI registered for that client, carrying
\* the minted code and the state supplied, and no state if none was supplied.
C8_ApprovalRedirect ==
  (req.op = "authorize_post" /\ req.params.client_id \in DOMAIN clients) =>
    /\ res.status = 302
    /\ res.location.uri \in Range(clients[req.params.client_id].redirectUris)
    /\ res.location.code \in MintedCodes
    /\ res.location.hasState = (req.params.state # "")
    /\ res.location.hasState => res.location.state = req.params.state

\* C9: redirect-URI binding.  An authorization_code token request succeeds
\* only if its redirect_uri equals the redirectUri stored with the code at
\* approval.
C9_RedirectUriBinding ==
  (req.op = "token" /\ IsAuthCodeGrant(req.params) /\ res.status = 200) =>
    \E r \in redeemed :
      /\ r.code = req.params.code
      /\ r.redirectUri = req.params.redirect_uri

\* C10: lazy removal.  A token request that looks up a code whose expiresAt
\* has passed is answered invalid_grant and leaves the authorization-code
\* store without that code.
C10_LazyRemoval ==
  [][\A p \in TokenParams :
       (/\ HandleToken(p)
        /\ IsAuthCodeGrant(p)
        /\ p.code \in DOMAIN authCodes
        /\ now > authCodes[p.code].expiresAt)
       => /\ IsInvalidGrant(res')
          /\ p.code \notin DOMAIN authCodes']_vars

\* C11: unknown client.  A GET or POST /authorize request whose client_id is
\* not a key of the client registry is answered with a 400 HTML error page
\* and no Location, and leaves the authorization-code store as it was.
C11_UnknownClient ==
  [][\A p \in AuthorizeParams :
       (/\ HandleAuthorize(p) \/ HandleAuthorizePost(p)
        /\ p.client_id \notin DOMAIN clients)
       => /\ res'.status = 400
          /\ res'.contentType = "text/html"
          /\ res'.location = NoLocation
          /\ authCodes' = authCodes
          /\ nCodes' = nCodes]_vars

\* An approval for a client_id that was never registered arrives while the
\* registry holds a client and the store holds a code, and is refused.
C11_Witness ==
  /\ req.op = "authorize_post"
  /\ req.params.client_id \notin DOMAIN clients
  /\ clients # EmptyMap
  /\ authCodes # EmptyMap
  /\ res.status = 400
  /\ res.contentType = "text/html"

\* C12: GET /authorize is read-only.  Whatever the query and the registry,
\* handling GET /authorize leaves the client registry, the authorization-code
\* store, the token store and the refresh-token index unchanged.
C12_AuthorizeReadOnly ==
  [][\A p \in AuthorizeParams : HandleAuthorize(p) =>
       /\ clients' = clients
       /\ authCodes' = authCodes
       /\ tokens' = tokens
       /\ refreshTokenIndex' = refreshTokenIndex]_vars

\* The consent page was rendered for a registered client.
C12_Witness ==
  /\ req.op = "authorize_get"
  /\ req.params.client_id \in DOMAIN clients
  /\ res.status = 200
  /\ res.contentType = "text/html"
  /\ authCodes # EmptyMap

\* C13: registration result.  POST /register with a parseable JSON body stores
\* exactly one new client under a fresh client_id that the response returns;
\* the response carries client_secret if and only if the body's
\* token_endpoint_auth_method is "client_secret_post", and reports
\* token_endpoint_auth_method "client_secret_post" then and "none" otherwise.
C13_RegistrationResult ==
  [][\A b \in RegisterBodies : (HandleRegister(b) /\ b.kind # "unparseable") =>
       /\ res'.status = 201
       /\ res'.client_id \notin DOMAIN clients
       /\ DOMAIN clients' = DOMAIN clients \cup {res'.client_id}
       /\ \A c \in DOMAIN clients : clients'[c] = clients[c]
       /\ (res'.client_secret # "")
            <=> (b.token_endpoint_auth_method = "client_secret_post")
       /\ res'.token_endpoint_auth_method =
            IF b.token_endpoint_auth_method = "client_secret_post"
              THEN "client_secret_post" ELSE "none"]_vars

\* C14: registration error.  POST /register whose body is not parseable JSON
\* is answered 400 with the error invalid_request, and the client registry is
\* unchanged by the request.
C14_RegistrationError ==
  [][\A b \in RegisterBodies : (HandleRegister(b) /\ b.kind = "unparseable") =>
       /\ res'.status = 400
       /\ res'.error = "invalid_request"
       /\ res'.contentType = "application/json"
       /\ res'.client_id = ""
       /\ clients' = clients]_vars

\* An unparseable body was refused while the registry holds a client.
C14_Witness ==
  /\ req.op = "register"
  /\ req.body.kind = "unparseable"
  /\ clients # EmptyMap
  /\ res.status = 400
  /\ res.error = "invalid_request"

\* C15: unsupported grant.  A POST /token request whose grant_type is absent
\* or is neither authorization_code nor refresh_token is answered 400 with the
\* error unsupported_grant_type, and none of the four stores changes.
C15_UnsupportedGrant ==
  [][\A p \in TokenParams :
       (HandleToken(p)
          /\ p.grant_type \notin {"authorization_code", "refresh_token"})
       => /\ res'.status = 400
          /\ res'.error = "unsupported_grant_type"
          /\ res'.contentType = "application/json"
          /\ clients' = clients
          /\ authCodes' = authCodes
          /\ tokens' = tokens
          /\ refreshTokenIndex' = refreshTokenIndex]_vars

\* A request without grant_type was refused while the stores hold a client,
\* a token record and an index entry.
C15_Witness ==
  /\ req.op = "token"
  /\ req.params.grant_type = ""
  /\ clients # EmptyMap
  /\ tokens # EmptyMap
  /\ refreshTokenIndex # EmptyMap
  /\ res.status = 400
  /\ res.error = "unsupported_grant_type"

\* C16: no hanging request.  Every request that was handled has received a
\* response, and a request whose handler met an internal fault (an approval
\* whose redirect_uri is not a parseable URL, a registration whose JSON body is
\* null) has received a 500-class response.
C16_NoHangingRequest ==
  /\ req.op # "none" => res.status \in 100..599
  /\ (req.op = "register" /\ req.body.kind = "null") => res.status \in 500..599
  /\ (/\ req.op = "authorize_post"
      /\ req.params.client_id \in DOMAIN clients
      /\ ~UrlParses(req.params.redirect_uri)) => res.status \in 500..599

\* The in-flight requests that were answered 200 and presented the code, or
\* the refresh token, that p presents.
Answered200(p) ==
  {j \in DOMAIN inflight :
     /\ inflight[j].params.grant_type = p.grant_type
     /\ inflight[j].params.code = p.code
     /\ inflight[j].params.refresh_token = p.refresh_token
     /\ inflight[j].res.status = 200}

\* Requests i and j were in flight at once: j had arrived before the handler
\* of i minted its token pair.
Overlap(i, j) ==
  /\ i # j
  /\ inflight[i].params = inflight[j].params
  /\ IsTokenPair(inflight[i].res)
  /\ inflight[i].res.access_token = NewAccessToken(inflight[j].mintedBefore + 1)

\* C17: concurrent redemption.  Of the token requests in flight at once
\* with the same valid code, client_id and verifier, whatever the order in
\* which their handlers resume, the first to resume while the code is
\* unexpired is answered 200 with a token pair and creates one token record,
\* and every one that resumes after a 200 for the code is answered
\* invalid_grant and creates none: exactly one 200 per code.
C17_ConcurrentRedemption ==
  [][\A i \in DOMAIN inflight :
       (ResumeToken(i) /\ IsAuthCodeGrant(inflight[i].params)) =>
         LET p == inflight[i].params IN
         /\ (/\ Answered200(p) = {}
             /\ PresentsLiveCode(p)
             /\ Sha256Base64Url(p.code_verifier) = authCodes[p.code].codeChallenge)
            => /\ IsTokenPair(res')
               /\ DOMAIN tokens' = DOMAIN tokens \cup {res'.access_token}
               /\ res'.access_token \notin DOMAIN tokens
         /\ Answered200(p) # {}
            => /\ IsInvalidGrant(res')
               /\ tokens' = tokens
               /\ refreshTokenIndex' = refreshTokenIndex]_vars

\* Two exchanges of one code were in flight at once; one was answered 200
\* and the other invalid_grant.
C17_Witness ==
  \E i, j \in DOMAIN inflight :
    /\ Overlap(i, j)
    /\ IsAuthCodeGrant(inflight[i].params)
    /\ IsInvalidGrant(inflight[j].res)

\* A refresh token that was issued and that no refresh has redeemed yet.
Unredeemed(rt) ==
  /\ rt \in MintedRefreshTokens
  /\ \A q \in rotated : q.oldRefresh # rt

\* C18: atomic rotation.  Every step in which a refresh deletes the old
\* access-token record and index entry also inserts the new pair, so no other
\* handler runs in a state with the old pair deleted and the new one missing;
\* and of the refresh requests in flight at once with the same refresh token,
\* the first to resume succeeds and every one that resumes after it is
\* answered invalid_grant: exactly one succeeds.
C18_AtomicRotation ==
  [][\A i \in DOMAIN inflight :
       (ResumeToken(i) /\ inflight[i].params.grant_type = "refresh_token") =>
         LET p == inflight[i].params
             rt == p.refresh_token
         IN
         /\ (Answered200(p) = {} /\ Unredeemed(rt))
            => /\ IsTokenPair(res')
               /\ refreshTokenIndex[rt] \notin DOMAIN tokens'
               /\ rt \notin DOMAIN refreshTokenIndex'
               /\ res'.access_token \in DOMAIN tokens'
               /\ res'.refresh_token \in DOMAIN refreshTokenIndex'
               /\ refreshTokenIndex'[res'.refresh_token] = res'.access_token
               /\ tokens'[res'.access_token].refreshToken = res'.refresh_token
         /\ Answered200(p) # {}
            => /\ IsInvalidGrant(res')
               /\ tokens' = tokens
               /\ refreshTokenIndex' = refreshTokenIndex
         /\ (rt \in DOMAIN refreshTokenIndex
               /\ rt \notin DOMAIN refreshTokenIndex'
               /\ refreshTokenIndex[rt] \in DOMAIN tokens)
            => \E rt2 \in DOMAIN refreshTokenIndex' \ DOMAIN refreshTokenIndex :
                 refreshTokenIndex'[rt2] \in DOMAIN tokens' \ DOMAIN tokens]_vars

\* The session identifiers the process has issued so far.
IssuedSessionIds ==
  IF transport.sessionId # Undefined THEN {transport.sessionId} ELSE {}

\* C19: session isolation.  Every session-initiating /mcp request that
\* carries no session identifier and reaches the transport obtains a session:
\* it is answered 200 with a session identifier, and that identifier differs
\* from every identifier issued before, so that two clients hold two distinct
\* sessions.  (The process has one transport and one server instance, so a
\* second session would have no transport of its own to be kept apart from.)
C19_SessionIsolation ==
  [][\A a \in AuthHeaders : \A st \in TransportStatuses :
       (/\ HandleMcp(a, st)
        /\ res'.transport
        /\ req'.msg.initialize
        /\ req'.msg.sessionId = NoSessionId)
       => /\ res'.status = 200
          /\ res'.sessionId # NoSessionId
          /\ res'.sessionId \notin IssuedSessionIds
          /\ transport'.sessionId = res'.sessionId]_vars

\* C20: unknown session rejected.  A /mcp request that is let through to the
\* protocol endpoint and carries a session identifier this process never
\* issued is answered 404, and no session exists under that identifier
\* afterwards.
C20_UnknownSession ==
  (/\ req.op = "mcp"
   /\ res.validated # "false"
   /\ req.msg.sessionId # NoSessionId
   /\ req.msg.sessionId \notin IssuedSessionIds)
  => /\ res.status = 404
     /\ transport.sessionId # req.msg.sessionId

C22_MetadataIdempotent ==
  [][HandleMetadata =>
       /\ res'.status = 200
       /\ res'.metadata =
            [issuer |-> "http://localhost:3000",
             authorization_endpoint |-> "http://localhost:3000/authorize",
             token_endpoint |-> "http://localhost:3000/token",
             registration_endpoint |-> "http://localhost:3000/register",
             response_types_supported |-> <<"code">>,
             grant_types_supported |-> <<"authorization_code", "refresh_token">>,
             token_endpoint_auth_methods_supported |->
               <<"none", "client_secret_post">>,
             code_challenge_methods_supported |-> <<"S256">>]
       /\ UNCHANGED stores]_vars

\* The document is served while a client and an expired code are stored.
C22_Witness ==
  /\ req.op = "metadata"
  /\ res.status = 200
  /\ clients # EmptyMap
  /\ \E c \in DOMAIN authCodes : now > authCodes[c].expiresAt

\* C23: frame of validateToken.  A call that returns true changes no store; a
\* call that returns false for a missing header, a header that is not a Bearer
\* header or an unknown token changes no store; a call that returns false for
\* a known token, which is the expiry case, removes the record of that token
\* from the token store and changes nothing else.
C23_ValidateTokenFrame ==
  [][\A a \in AuthHeaders : \A st \in TransportStatuses :
       HandleMcp(a, st) /\ variant = "gated" =>
         LET known == a.present /\ a.prefix = "Bearer " /\ a.rest \in DOMAIN tokens
         IN
         /\ UNCHANGED <<clients, authCodes, refreshTokenIndex>>
         /\ res'.validated \in {"true", "false"}
         /\ res'.validated = "true" => tokens' = tokens
         /\ res'.validated = "false" /\ ~known => tokens' = tokens
         /\ res'.validated = "false" /\ known =>
              /\ now > tokens[a.rest].expiresAt
              /\ DOMAIN tokens' = DOMAIN tokens \ {a.rest}
              /\ \A t \in DOMAIN tokens' : tokens'[t] = tokens[t]]_vars

\* An expired token was presented and evicted; the refresh index still holds
\* the entry of its refresh token.
C23_Witness ==
  /\ req.op = "mcp"
  /\ res.validated = "false"
  /\ req.authorization.present
  /\ req.authorization.prefix = "Bearer "
  /\ req.authorization.rest \in MintedAccessTokens \ DOMAIN tokens
  /\ \E rt \in DOMAIN refreshTokenIndex :
       refreshTokenIndex[rt] = req.authorization.rest

\* C24: refresh after eviction.  A refresh request whose refresh token is in
\* the index while the record it points to is gone from the token store is
\* answered invalid_grant, mints nothing and removes that one index entry; a
\* refresh request whose refresh token is not in the index is answered
\* invalid_grant and changes nothing.
C24_RefreshAfterEviction ==
  [][\A p \in TokenParams :
       HandleToken(p) /\ p.grant_type = "refresh_token" =>
         LET rt == p.refresh_token IN
         /\ (rt \in DOMAIN refreshTokenIndex
               /\ refreshTokenIndex[rt] \notin DOMAIN tokens) =>
              /\ IsInvalidGrant(res')
              /\ nTokens' = nTokens
              /\ UNCHANGED <<clients, authCodes, tokens>>
              /\ DOMAIN refreshTokenIndex' = DOMAIN refreshTokenIndex \ {rt}
              /\ \A k \in DOMAIN refreshTokenIndex' :
                   refreshTokenIndex'[k] = refreshTokenIndex[k]
         /\ rt \notin DOMAIN refreshTokenIndex =>
              /\ IsInvalidGrant(res')
              /\ nTokens' = nTokens
              /\ UNCHANGED stores]_vars

\* The refresh token of an evicted record was presented: it was never rotated,
\* its access token is gone, and the request removed its index entry.
C24_Witness ==
  /\ req.op = "token"
  /\ req.params.grant_type = "refresh_token"
  /\ IsInvalidGrant(res)
  /\ \E n \in 1..nTokens :
       /\ req.params.refresh_token = NewRefreshToken(n)
       /\ NewRefreshToken(n) \notin {r.oldRefresh : r \in rotated}
       /\ NewRefreshToken(n) \notin DOMAIN refreshTokenIndex
       /\ NewAccessToken(n) \notin DOMAIN tokens

\* C25: a failed redemption does not consume the code.  An authorization_code
\* request that is not answered with a token pair is answered invalid_grant
\* and leaves the code store, the token store and the refresh index as they
\* were; a stored, unexpired code is then still redeemed, once, by the request
\* that presents it with its owner's client_id and the matching verifier.
C25_FailedRedemptionKeepsCode ==
  [][\A p \in TokenParams :
       HandleToken(p) /\ IsAuthCodeGrant(p) /\ ~IsTokenPair(res') =>
         /\ IsInvalidGrant(res')
         /\ nTokens' = nTokens
         /\ UNCHANGED <<authCodes, tokens, refreshTokenIndex>>
         /\ \A c \in MintedCodes : \A v \in Verifiers : \A id \in ClientIdInputs :
              LET q == [grant_type |-> "authorization_code", code |-> c,
                        code_verifier |-> v, client_id |-> id,
                        redirect_uri |-> RegisteredUri, refresh_token |-> ""]
              IN (/\ c \in DOMAIN authCodes'
                  /\ id = authCodes'[c].clientId
                  /\ now' <= authCodes'[c].expiresAt
                  /\ Sha256Base64Url(v) = authCodes'[c].codeChallenge) =>
                   /\ IsTokenPair(handleToken(q).res)'
                   /\ (c \notin DOMAIN handleToken(q).authCodes)']_vars

\* A request that failed the PKCE check has left its unexpired code stored.
C25_Witness ==
  /\ req.op = "token"
  /\ IsAuthCodeGrant(req.params)
  /\ IsInvalidGrant(res)
  /\ res.error_description = "PKCE verification failed"
  /\ req.params.code \in DOMAIN authCodes
  /\ now <= authCodes[req.params.code].expiresAt
  /\ authCodes[req.params.code].codeChallenge = Sha256Base64Url("verifier-one")

\* C26: no orphan code on a failed approval.  POST /authorize adds a code to
\* the code store only if the same request is answered with the 302 that
\* carries that code; a request that ends without a 302 leaves the code store
\* as it was.
C26_NoOrphanCode ==
  [][\A p \in AuthorizeParams :
       HandleAuthorizePost(p) =>
         /\ authCodes' # authCodes =>
              /\ res'.status = 302
              /\ res'.location.code \in DOMAIN authCodes' \ DOMAIN authCodes
         /\ res'.status # 302 => authCodes' = authCodes]_vars

\* The client_secret values a token request may carry: none, the secret that
\* was issued at registration, and a wrong one.
ClientSecretInputs ==
  {"", "wrong-secret"} \cup {clients[c].clientSecret : c \in DOMAIN clients}

\* The request p sent with client_secret s.
WithSecret(p, s) ==
  [f \in DOMAIN p \cup {"client_secret"} |->
     IF f = "client_secret" THEN s ELSE p[f]]

\* The status answered and the stores left behind.
StatusAndStores(out) ==
  <<out.res.status, out.authCodes, out.tokens, out.refreshTokenIndex,
    out.minted>>

\* C27: the token endpoint ignores the client credentials it does not check.
\* From one store state, two token requests that differ only in client_secret,
\* or two refresh requests that differ only in client_id, get the same status
\* and leave the same stores; a refresh request with a refresh token whose
\* record is stored is answered with a token pair whatever client_id and
\* client_secret it carries.
C27_CredentialsIgnored ==
  \A p \in TokenParams : \A s1, s2 \in ClientSecretInputs :
    /\ StatusAndStores(handleToken(WithSecret(p, s1)))
         = StatusAndStores(handleToken(WithSecret(p, s2)))
    /\ p.grant_type = "refresh_token" =>
         \A id1, id2 \in ClientIdInputs :
           LET q1 == WithSecret([p EXCEPT !.client_id = id1], s1)
               q2 == WithSecret([p EXCEPT !.client_id = id2], s2)
           IN
           /\ StatusAndStores(handleToken(q1)) = StatusAndStores(handleToken(q2))
           /\ (/\ p.refresh_token \in DOMAIN refreshTokenIndex
               /\ refreshTokenIndex[p.refresh_token] \in DOMAIN tokens) =>
                IsTokenPair(handleToken(q1).res)

\* A refresh request with a client_id that is not the owner's has rotated the
\* token record of a client that was registered with client_secret_post.
C27_Witness ==
  /\ req.op = "token"
  /\ req.params.grant_type = "refresh_token"
  /\ IsTokenPair(res)
  /\ res.access_token \in DOMAIN tokens
  /\ tokens[res.access_token].clientId \in DOMAIN clients
  /\ tokens[res.access_token].clientId # req.params.client_id
  /\ clients[tokens[res.access_token].clientId].clientSecret # Undefined

\* C28: owner invariant.  The clientId of every stored code and of every
\* stored token record is a registered client; a token record minted by a code
\* exchange carries the clientId of that code, and a token record minted by a
\* refresh carries the clientId of the record it replaces.
C28_OwnerInvariant ==
  /\ [](/\ \A c \in DOMAIN authCodes : authCodes[c].clientId \in DOMAIN clients
        /\ \A t \in DOMAIN tokens : tokens[t].clientId \in DOMAIN clients)
  /\ [][\A p \in TokenParams :
          HandleToken(p) /\ IsTokenPair(res') =>
            /\ res'.access_token \in DOMAIN tokens' \ DOMAIN tokens
            /\ IsAuthCodeGrant(p) =>
                 tokens'[res'.access_token].clientId = authCodes[p.code].clientId
            /\ p.grant_type = "refresh_token" =>
                 tokens'[res'.access_token].clientId
                   = tokens[refreshTokenIndex[p.refresh_token]].clientId]_vars

\* A record minted by an exchange was replaced by a refresh that came with
\* another client_id, and the new record is still owned by the registered
\* client the code was issued to.
C28_Witness ==
  /\ req.op = "token"
  /\ req.params.grant_type = "refresh_token"
  /\ IsTokenPair(res)
  /\ redeemed # {}
  /\ res.access_token \in DOMAIN tokens
  /\ tokens[res.access_token].clientId \in {r.clientId : r \in redeemed}
  /\ tokens[res.access_token].clientId # req.params.client_id

C30_AlwaysS256 ==
  [][\A p \in TokenParams :
       HandleToken(p) /\ PresentsLiveCode(p) =>
         /\ IsTokenPair(res') <=>
              Sha256Base64Url(p.code_verifier) = authCodes[p.code].codeChallenge
         /\ ~IsTokenPair(res') => IsInvalidGrant(res')
         /\ authCodes[p.code].codeChallenge \in {"", "verifier-two"} =>
              IsInvalidGrant(res')]_vars

\* A code stored with the method plain and a verifier as its challenge was
\* presented with that very verifier and refused.
C30_Witness ==
  /\ req.op = "token"
  /\ IsAuthCodeGrant(req.params)
  /\ req.params.code \in DOMAIN authCodes
  /\ authCodes[req.params.code].codeChallengeMethod = "plain"
  /\ authCodes[req.params.code].codeChallenge = req.params.code_verifier
  /\ authCodes[req.params.code].clientId = req.params.client_id
  /\ now <= authCodes[req.params.code].expiresAt
  /\ IsInvalidGrant(res)
  /\ res.error_description = "PKCE verification failed"

====
